---- MODULE Spec2Model ----
(***************************************************************************)
(* Model of the docs-only chatbot: the retrieval core of rag_chat.py       *)
(* (classification, cosine scoring, MMR selection, relevance floor,        *)
(* context assembly, answer_with_index) and the index cache of api.py      *)
(* together with the index writer of build_index.py.                       *)
(*                                                                         *)
(* Numbers.  Embedding rows are unit vectors in the code.  Here a vector   *)
(* is an integer triple of Euclidean norm 3, standing for that triple      *)
(* divided by 3, so a dot product of two model vectors is the cosine       *)
(* similarity multiplied by SimScale = 9 and every comparison the code     *)
(* makes on floats is made here exactly on integers.  lambda_mult and the  *)
(* two relevance floors are kept in hundredths.                            *)
(* Indices.  Python lists are 0-based, sequences here are 1-based; the     *)
(* index 0 stands for None.                                                *)
(* Text.  A string is a sequence of one-character strings; the backquote   *)
(* character is written BACKQUOTE.                                         *)
(***************************************************************************)
EXTENDS Integers, Sequences, FiniteSets, TLC

VARIABLES search_call, context_call, answer_call,
          cached_index, cached_version, emb_file, meta_file, getters, reindex_call,
          classify_call

vars == <<search_call, context_call, answer_call,
          cached_index, cached_version, emb_file, meta_file, getters, reindex_call,
          classify_call>>

\* the variables of the web API: the cache globals of api.py, the two index
\* files, the /query and /health calls in flight and the /reindex call
api_vars == <<cached_index, cached_version, emb_file, meta_file, getters, reindex_call>>

----------------------------------------------------------------------------
(* Bounds of the model *)

MaxN == 3

MaxTopK == 3

MaxPool == 3

MaxResults == 5

MaxBudget == 20

MaxLimit == 2

MaxRequestedTopK == 7

LongTextLen == 300

MaxReindex == 1

----------------------------------------------------------------------------
(* Generic helpers *)

Max(a, b) == IF a >= b THEN a ELSE b

Min(a, b) == IF a <= b THEN a ELSE b

Range(s) == {s[k] : k \in 1..Len(s)}

None == 0

SeqsUpTo(S, n) == UNION {[1..k -> S] : k \in 0..n}

\* frames of the functions that are not being called
IdleSearch == [pc |-> "idle"]

IdleContext == [pc |-> "idle"]

IdleAnswer == [pc |-> "idle"]

IdleClassify == [pc |-> "idle"]

\* api.py lines 19-20 and 77-78: None
NoIndex == [none |-> TRUE]

NoVersion == [none |-> TRUE]

\* a file that is open for writing: truncated, or written in part
PARTIAL == 0

IdleReindex == [pc |-> "idle", build |-> 0, calls |-> 0]

\* no web request in flight, no index on disk
ApiIdle ==
  /\ cached_index = NoIndex
  /\ cached_version = NoVersion
  /\ emb_file = PARTIAL
  /\ meta_file = PARTIAL
  /\ getters = <<>>
  /\ reindex_call = IdleReindex

----------------------------------------------------------------------------
(* Vectors *)

Dot(a, b) == a[1] * b[1] + a[2] * b[2] + a[3] * b[3]

Vecs == {<<1, 2, 2>>, <<2, 2, -1>>, <<1, -2, 2>>, <<2, -2, 1>>}

SimScale == Dot(<<1, 2, 2>>, <<1, 2, 2>>)

LambdaScale == 100

Lambdas == {50, 55, 100}

ScoreScale == LambdaScale * SimScale

----------------------------------------------------------------------------
(* rag_chat.py: mmr_select *)

BEST_SCORE_INIT == -1000000000

\* np.argsort(-similarities): every index order that is descending in
\* similarity (the order among equal similarities is the sort's choice).
ArgsortDescending(similarities) ==
  LET N == Len(similarities)
  IN {p \in [1..N -> 1..N] :
        /\ \A a, b \in 1..N : a # b => p[a] # p[b]
        /\ \A a, b \in 1..N : a < b => similarities[p[a]] >= similarities[p[b]]}

\* line 92: the slice [:min(pool_size, len(similarities))]
PoolOf(order, pool_size) == SubSeq(order, 1, Min(pool_size, Len(order)))

\* line 102: max over the selected of embeddings[i] @ embeddings[j]
Diversity(i, selected, embeddings) ==
  LET ds == {Dot(embeddings[i], embeddings[selected[k]]) : k \in 1..Len(selected)}
  IN IF selected = <<>> THEN 0 ELSE CHOOSE d \in ds : \A e \in ds : d >= e

\* line 103, in units of 1/ScoreScale
MmrScore(i, selected, similarities, embeddings, lambda_mult) ==
  lambda_mult * similarities[i]
    - (LambdaScale - lambda_mult) * Diversity(i, selected, embeddings)

\* line 104: score > best_score, where best_score starts at -1e9
Beats(score, best) ==
  IF ~best.seen
    THEN (score - 1) \div ScoreScale >= BEST_SCORE_INIT
    ELSE score > best.score

\* lines 99-105: the scan of the remaining candidates in pool order
RECURSIVE ScanRemaining(_, _, _, _, _, _, _)
ScanRemaining(remaining, k, best, selected, similarities, embeddings, lambda_mult) ==
  IF k > Len(remaining) THEN best.i
  ELSE LET i == remaining[k]
           score == MmrScore(i, selected, similarities, embeddings, lambda_mult)
           nb == IF Beats(score, best)
                   THEN [i |-> i, score |-> score, seen |-> TRUE]
                   ELSE best
       IN ScanRemaining(remaining, k + 1, nb, selected, similarities, embeddings,
                        lambda_mult)

\* a loop that runs until top_k items are selected, whatever the pool holds
LoopBoundTopKOnly(top_k, pool_idx) == top_k

\* line 97: the loop condition
LoopBound(top_k, pool_idx) == Min(top_k, Len(pool_idx))

\* lines 97-106: the selection loop
RECURSIVE MmrLoop(_, _, _, _, _, _)
MmrLoop(selected, pool_idx, similarities, embeddings, top_k, lambda_mult) ==
  IF Len(selected) < LoopBound(top_k, pool_idx)
    THEN LET remaining == SelectSeq(pool_idx, LAMBDA i : i \notin Range(selected))
             best_i == ScanRemaining(remaining, 1,
                                     [i |-> None, score |-> 0, seen |-> FALSE],
                                     selected, similarities, embeddings, lambda_mult)
         IN MmrLoop(Append(selected, best_i), pool_idx, similarities, embeddings,
                    top_k, lambda_mult)
    ELSE selected

\* lines 93-107, given the pool of line 92
mmr_select(pool_idx, similarities, embeddings, top_k, lambda_mult) ==
  IF Len(pool_idx) = 0 THEN <<>>
  ELSE MmrLoop(<<pool_idx[1]>>, pool_idx, similarities, embeddings, top_k,
               lambda_mult)

----------------------------------------------------------------------------
(* rag_chat.py: search *)

MIN_SCORE_ABS == 16

REL_FLOOR == 80

\* line 112: sims = embs @ qvec
Similarities(embs, qvec) == [i \in 1..Len(embs) |-> Dot(embs[i], qvec)]

\* line 114
Materialize(idx, sims, meta) ==
  [k \in 1..Len(idx) |->
     [score |-> sims[idx[k]], source |-> meta[idx[k]].source,
      text |-> meta[idx[k]].text]]

\* line 118: max(min_score_abs, 0.80 * max_sim), times 100 * SimScale
MinScore(max_sim) == Max(MIN_SCORE_ABS * SimScale, REL_FLOOR * max_sim)

\* a filter that keeps the absolute floor only
PassesFloorAbsOnly(r, max_sim) == 100 * r.score >= MIN_SCORE_ABS * SimScale

\* a filter that keeps the relative floor only
PassesFloorRelOnly(r, max_sim) == 100 * r.score >= REL_FLOOR * max_sim

\* line 118: r["score"] >= max(min_score_abs, 0.80 * max_sim)
PassesFloor(r, max_sim) == 100 * r.score >= MinScore(max_sim)

\* lines 115-119
RelevanceFilter(results) ==
  IF results # <<>>
    THEN SelectSeq(results, LAMBDA r : PassesFloor(r, results[1].score))
    ELSE results

----------------------------------------------------------------------------
(* Sample corpus texts *)

BACKQUOTE == "backquote"

SampleTexts ==
  << <<>>,
     <<" ", "*", "*", "a", "*", "*", BACKQUOTE>>,
     <<"a", "b", "c", "d", "e">> >>

\* the metadata list aligned with an embedding matrix of n rows
MetaOf(n) ==
  [i \in 1..n |-> [source |-> i, text |-> SampleTexts[((i - 1) % Len(SampleTexts)) + 1]]]

----------------------------------------------------------------------------
(* rag_chat.py: strip_md and build_context *)

IsSpace(c) == c \in {" ", "\n", "\t"}

\* str.strip()
RECURSIVE LStrip(_)
LStrip(s) == IF s # <<>> /\ IsSpace(Head(s)) THEN LStrip(Tail(s)) ELSE s

RECURSIVE RStrip(_)
RStrip(s) ==
  IF s # <<>> /\ IsSpace(s[Len(s)]) THEN RStrip(SubSeq(s, 1, Len(s) - 1)) ELSE s

Strip(s) == LStrip(RStrip(s))

StarsAt(s, j) == j + 1 <= Len(s) /\ s[j] = "*" /\ s[j + 1] = "*"

\* line 57: re.sub(r"\*\*(.*?)\*\*", r"\1", s), scanning from position i.
\* The lazy group ends at the first "**" at or after i + 2 and matches only
\* if no newline lies before it.
RECURSIVE SubBold(_, _)
SubBold(s, i) ==
  IF \A j \in i..Len(s) : ~StarsAt(s, j) THEN SubSeq(s, i, Len(s))
  ELSE LET closings == {j \in (i + 2)..Len(s) : StarsAt(s, j)}
           j0 == CHOOSE j \in closings : \A k \in closings : j <= k
       IN IF /\ StarsAt(s, i)
             /\ closings # {}
             /\ \A k \in (i + 2)..(j0 - 1) : s[k] # "\n"
            THEN SubSeq(s, i + 2, j0 - 1) \o SubBold(s, j0 + 2)
            ELSE <<s[i]>> \o SubBold(s, i + 1)

\* line 58: s.replace("**", "")
RECURSIVE RemoveStars(_, _)
RemoveStars(s, i) ==
  IF \A j \in i..Len(s) : ~StarsAt(s, j) THEN SubSeq(s, i, Len(s))
  ELSE IF StarsAt(s, i) THEN RemoveStars(s, i + 2)
  ELSE <<s[i]>> \o RemoveStars(s, i + 1)

\* lines 55-59
strip_md(s) ==
  IF s = <<>> THEN s
  ELSE SelectSeq(RemoveStars(SubBold(s, 1), 1), LAMBDA c : c # BACKQUOTE)

SEPARATOR_OVERHEAD == 4

\* line 132: the separator "\n\n---\n\n"
Separator == <<"\n", "\n", "-", "-", "-", "\n", "\n">>

\* str.join
RECURSIVE Join(_, _)
Join(blocks, sep) ==
  IF blocks = <<>> THEN <<>>
  ELSE IF Len(blocks) = 1 THEN blocks[1]
  ELSE blocks[1] \o sep \o Join(Tail(blocks), sep)

\* chunk[:per_chunk_limit], a Python slice (a negative bound counts from the end)
SliceTo(chunk, n) ==
  IF n >= 0 THEN SubSeq(chunk, 1, Min(n, Len(chunk)))
  ELSE SubSeq(chunk, 1, Max(0, Len(chunk) + n))

\* lines 125-127
ChunkOf(r, per_chunk_limit) ==
  LET chunk == strip_md(Strip(r.text))
  IN IF per_chunk_limit # 0 /\ Len(chunk) > per_chunk_limit
       THEN SliceTo(chunk, per_chunk_limit)
       ELSE chunk

\* line 128
AddOf(chunk) == Len(chunk) + SEPARATOR_OVERHEAD

\* lines 124-131: the loop from result k on
RECURSIVE ContextLoop(_, _, _, _, _, _, _)
ContextLoop(results, k, blocks, taken, total, char_budget, per_chunk_limit) ==
  IF k > Len(results) THEN [blocks |-> blocks, taken |-> taken, total |-> total]
  ELSE LET chunk == ChunkOf(results[k], per_chunk_limit)
           add == AddOf(chunk)
       IN IF total + add > char_budget
            THEN [blocks |-> blocks, taken |-> taken, total |-> total]
            ELSE ContextLoop(results, k + 1, Append(blocks, chunk),
                             Append(taken, results[k]), total + add,
                             char_budget, per_chunk_limit)

\* lines 121-132
build_context(results, char_budget, per_chunk_limit) ==
  LET out == ContextLoop(results, 1, <<>>, <<>>, 0, char_budget, per_chunk_limit)
  IN [context |-> Join(out.blocks, Separator), taken |-> out.taken,
      total |-> out.total]

----------------------------------------------------------------------------
(* One call of search with qvec given *)

InitSearch ==
  /\ \E embs \in SeqsUpTo(Vecs, MaxN), qvec \in Vecs, top_k \in 0..MaxTopK,
        pool_size \in 0..MaxPool, lambda_mult \in Lambdas :
       search_call = [pc |-> "call", embs |-> embs, meta |-> MetaOf(Len(embs)),
                      qvec |-> qvec, top_k |-> top_k, pool_size |-> pool_size,
                      lambda_mult |-> lambda_mult]
  /\ context_call = IdleContext
  /\ answer_call = IdleAnswer
  /\ ApiIdle
  /\ classify_call = IdleClassify

\* lines 112-119.  Indexing meta with None (line 114) raises TypeError.
Search ==
  /\ search_call.pc = "call"
  /\ LET c == search_call
         sims == Similarities(c.embs, c.qvec)
     IN \E order \in ArgsortDescending(sims) :
          LET pool_idx == PoolOf(order, c.pool_size)
              idx == mmr_select(pool_idx, sims, c.embs, c.top_k, c.lambda_mult)
              raised == None \in Range(idx)
              results == IF raised THEN <<>> ELSE Materialize(idx, sims, c.meta)
          IN search_call' = [pc |-> IF raised THEN "raise" ELSE "return",
                             embs |-> c.embs, meta |-> c.meta,
                             qvec |-> c.qvec, top_k |-> c.top_k,
                             pool_size |-> c.pool_size,
                             lambda_mult |-> c.lambda_mult,
                             sims |-> sims, pool_idx |-> pool_idx, idx |-> idx,
                             results |-> results, hits |-> RelevanceFilter(results)]
  /\ UNCHANGED <<context_call, answer_call, api_vars, classify_call>>

NextSearch == Search

SpecSearch == InitSearch /\ [][NextSearch]_vars

----------------------------------------------------------------------------
(* One call of build_context *)

\* result lists as search materializes them, over the sample texts
SampleResults ==
  {[score |-> SimScale, source |-> t, text |-> SampleTexts[t]] :
     t \in 1..Len(SampleTexts)}

InitContext ==
  /\ \E results \in SeqsUpTo(SampleResults, MaxResults),
        char_budget \in 0..MaxBudget, per_chunk_limit \in (-1)..MaxLimit :
       context_call = [pc |-> "call", results |-> results,
                       char_budget |-> char_budget,
                       per_chunk_limit |-> per_chunk_limit]
  /\ search_call = IdleSearch
  /\ answer_call = IdleAnswer
  /\ ApiIdle
  /\ classify_call = IdleClassify

BuildContext ==
  /\ context_call.pc = "call"
  /\ LET c == context_call
         out == build_context(c.results, c.char_budget, c.per_chunk_limit)
     IN context_call' = [pc |-> "return", results |-> c.results,
                         char_budget |-> c.char_budget,
                         per_chunk_limit |-> c.per_chunk_limit,
                         context |-> out.context, taken |-> out.taken,
                         total |-> out.total]
  /\ UNCHANGED <<search_call, answer_call, api_vars, classify_call>>

NextContext == BuildContext

SpecContext == InitContext /\ [][NextContext]_vars

----------------------------------------------------------------------------
(* rag_chat.py: the query classifier *)

UpperChars ==
  <<"A", "B", "C", "D", "E", "F", "G", "H", "I", "J", "K", "L", "M", "N", "O",
    "P", "Q", "R", "S", "T", "U", "V", "W", "X", "Y", "Z">>

LowerChars ==
  <<"a", "b", "c", "d", "e", "f", "g", "h", "i", "j", "k", "l", "m", "n", "o",
    "p", "q", "r", "s", "t", "u", "v", "w", "x", "y", "z">>

\* str.lower()
Lower(s) ==
  [k \in 1..Len(s) |->
     IF \E u \in 1..Len(UpperChars) : UpperChars[u] = s[k]
       THEN LowerChars[CHOOSE u \in 1..Len(UpperChars) : UpperChars[u] = s[k]]
       ELSE s[k]]

\* str.split(): the whitespace-delimited tokens
RECURSIVE SplitFrom(_, _, _)
SplitFrom(s, i, word) ==
  IF i > Len(s) THEN (IF word = <<>> THEN <<>> ELSE <<word>>)
  ELSE IF IsSpace(s[i])
    THEN (IF word = <<>> THEN <<>> ELSE <<word>>) \o SplitFrom(s, i + 1, <<>>)
    ELSE SplitFrom(s, i + 1, Append(word, s[i]))

Split(s) == SplitFrom(s, 1, <<>>)

\* needle in hay
Contains(hay, needle) ==
  \E i \in 1..(Len(hay) - Len(needle) + 1) :
    SubSeq(hay, i, i + Len(needle) - 1) = needle

\* line 16: _GREETINGS
GREETINGS ==
  {
    <<"h", "i">>,
    <<"h", "e", "l", "l", "o">>,
    <<"h", "e", "y">>,
    <<"h", "i", "!">>,
    <<"h", "e", "l", "l", "o", "!">>,
    <<"h", "e", "y", "!">>,
    <<"g", "o", "o", "d", " ", "m", "o", "r", "n", "i", "n", "g">>,
    <<"g", "o", "o", "d", " ", "a", "f", "t", "e", "r", "n", "o", "o",
    "n">>,
    <<"g", "o", "o", "d", " ", "e", "v", "e", "n", "i", "n", "g">>
  }

\* line 17: _FAREWELLS
FAREWELLS ==
  {
    <<"b", "y", "e">>,
    <<"g", "o", "o", "d", "b", "y", "e">>,
    <<"s", "e", "e", " ", "y", "o", "u">>,
    <<"t", "h", "a", "n", "k", "s">>,
    <<"t", "h", "a", "n", "k", " ", "y", "o", "u">>,
    <<"t", "h", "a", "t", "'", "s", " ", "a", "l", "l">>,
    <<"d", "o", "n", "e">>,
    <<"e", "x", "i", "t">>,
    <<"q", "u", "i", "t">>
  }

\* line 35: the single question words
QUESTION_WORDS ==
  {
    <<"w", "h", "a", "t">>,
    <<"h", "o", "w">>,
    <<"w", "h", "y">>,
    <<"w", "h", "e", "n">>,
    <<"w", "h", "e", "r", "e">>
  }

\* line 45: the words that never count as shared
STOP_WORDS ==
  {
    <<"t", "h", "a", "t">>,
    <<"t", "h", "i", "s">>,
    <<"w", "i", "t", "h">>,
    <<"h", "a", "v", "e">>,
    <<"f", "r", "o", "m">>,
    <<"t", "h", "e", "y">>,
    <<"w", "e", "r", "e">>,
    <<"b", "e", "e", "n">>,
    <<"s", "a", "i", "d">>,
    <<"w", "h", "a", "t">>,
    <<"h", "o", "w">>,
    <<"w", "h", "y">>,
    <<"w", "h", "e", "n">>,
    <<"w", "h", "e", "r", "e">>
  }

\* line 53: the breadth markers
BROAD_HINTS ==
  {
    <<"o", "v", "e", "r", "v", "i", "e", "w">>,
    <<"t", "e", "l", "l", " ", "m", "e", " ", "a", "b", "o", "u", "t">>,
    <<"g", "e", "n", "e", "r", "a", "l">>,
    <<"s", "u", "m", "m", "a", "r", "y">>,
    <<"s", "u", "m", "m", "a", "r", "i", "z", "e">>
  }

\* the questions the model asks
SampleQueries ==
  <<
    <<"H", "i", "!">>,
    <<"G", "o", "o", "d", " ", "M", "o", "r", "n", "i", "n", "g">>,
    <<"b", "y", "e">>,
    <<"o", "k", " ", "t", "h", "a", "n", "k", "s", " ", "b", "y", "e">>,
    <<"o", "v", "e", "r", "v", "i", "e", "w", " ", "p", "l", "e", "a", "s",
    "e">>,
    <<"w", "h", "a", "t">>,
    <<"g", "i", "v", "e", " ", "m", "e", " ", "a", " ", "s", "u", "m", "m",
    "a", "r", "y", " ", "o", "f", " ", "c", "h", "a", "p", "t", "e", "r",
    " ", "t", "w", "o">>,
    <<"w", "h", "a", "t", " ", "a", "b", "o", "u", "t", " ", "c", "h", "a",
    "p", "t", "e", "r", " ", "5", " ", "p", "r", "i", "c", "i", "n", "g">>,
    <<"h", "o", "w", " ", "d", "o", "e", "s", " ", "s", "h", "i", "p", "p",
    "i", "n", "g", " ", "w", "o", "r", "k">>,
    <<"I", " ", "a", "b", "a", "n", "d", "o", "n", "e", "d", " ", "t", "h",
    "e", " ", "c", "a", "r", "t">>
  >>

\* the previous answers the model passes
SampleLastAnswers ==
  <<
    <<>>,
    <<" ", " ", " ">>,
    <<"C", "h", "a", "p", "t", "e", "r", " ", "5", " ", "c", "o", "v", "e",
    "r", "s", " ", "p", "r", "i", "c", "i", "n", "g", " ", "s", "t", "r",
    "a", "t", "e", "g", "y", " ", "a", "n", "d", " ", "d", "i", "s", "c",
    "o", "u", "n", "t", " ", "t", "i", "e", "r", "s">>
  >>

\* further queries for the classifiers alone
ExtraQueries ==
  <<
    <<" ", " ", "H", "E", "L", "L", "O", " ", " ">>,
    <<"t", "h", "a", "n", "k", "s", " ", "a", " ", "l", "o", "t", " ", "f",
    "o", "r", " ", "t", "h", "a", "t">>,
    <<"w", "h", "a", "t", " ", "w", "e", "r", "e", " ", "t", "h", "e", "y",
    " ", "w", "i", "t", "h", " ", "p", "r", "i", "c", "i", "n", "g">>,
    <<"w", "h", "a", "t", " ", "h", "a", "v", "e", " ", "t", "h", "e", "y",
    " ", "b", "e", "e", "n", " ", "d", "o", "i", "n", "g">>,
    <<"P", "r", "i", "c", "i", "n", "g", " ", "t", "i", "e", "r", "s", " ",
    "f", "o", "r", " ", "c", "h", "a", "p", "t", "e", "r", " ", "f", "i", "v",
    "e">>,
    <<"i", "s", " ", "i", "t", " ", "d", "o", "n", "e", " ", "y", "e", "t">>
  >>

\* further previous answers for the classifiers alone
ExtraLastAnswers ==
  <<
    <<"t", "h", "e", "y", " ", "h", "a", "v", "e", " ", "b", "e", "e", "n",
    " ", "w", "i", "t", "h", " ", "t", "h", "a", "t", " ", "p", "r", "i", "c",
    "i", "n", "g">>,
    <<"P", "R", "I", "C", "I", "N", "G">>
  >>

\* lines 63-67: the refusal phrases
REFUSAL_PHRASES ==
  {
    <<"i", " ", "d", "o", "n", "'", "t", " ", "h", "a", "v", "e", " ", "t",
    "h", "a", "t", " ", "i", "n", "f", "o", "r", "m", "a", "t", "i", "o",
    "n">>,
    <<"n", "o", "t", " ", "i", "n", " ", "t", "h", "e", " ", "p", "r", "o",
    "v", "i", "d", "e", "d", " ", "d", "o", "c", "u", "m", "e", "n", "t",
    "s">>,
    <<"n", "o", "t", " ", "i", "n", " ", "t", "h", "e", " ", "c", "o", "n",
    "t", "e", "x", "t">>,
    <<"i", " ", "c", "o", "u", "l", "d", "n", "'", "t", " ", "f", "i", "n",
    "d">>,
    <<"i", "'", "m", " ", "n", "o", "t", " ", "s", "u", "r", "e">>,
    <<"i", " ", "a", "m", " ", "n", "o", "t", " ", "s", "u", "r", "e">>
  }

\* line 233: the words a farewell answer must hold one of
FAREWELL_WORDS ==
  {
    <<"g", "o", "o", "d", "b", "y", "e">>,
    <<"b", "y", "e">>,
    <<"f", "a", "r", "e", "w", "e", "l", "l">>,
    <<"t", "h", "a", "n", "k", "s">>
  }


\* lines 19-20
is_greeting(q) == Lower(Strip(q)) \in GREETINGS

\* lines 22-24
is_farewell(q) == \E farewell \in FAREWELLS : Contains(Lower(Strip(q)), farewell)

\* line 45
MeaningfulCommon(answer_words, query_words) ==
  {w \in answer_words \cap query_words : Len(w) > 3 /\ w \notin STOP_WORDS}

\* is_topic_change without the test of line 31
TopicChangeWithoutGreetingFarewell(q, last_answer) ==
  LET qn == Lower(Strip(q))
  IN IF Len(Split(qn)) <= 2 /\ qn \notin QUESTION_WORDS THEN TRUE
     ELSE IF /\ last_answer # <<>>
             /\ MeaningfulCommon(Range(Split(Lower(last_answer))),
                                 Range(Split(qn))) = {}
             /\ Len(Split(qn)) > 1
            THEN TRUE
     ELSE FALSE

\* lines 26-49
is_topic_change(q, last_answer) ==
  LET qn == Lower(Strip(q))
  IN IF is_greeting(qn) \/ is_farewell(qn) THEN TRUE
     ELSE IF Len(Split(qn)) <= 2 /\ qn \notin QUESTION_WORDS THEN TRUE
     ELSE IF /\ last_answer # <<>>
             /\ MeaningfulCommon(Range(Split(Lower(last_answer))),
                                 Range(Split(qn))) = {}
             /\ Len(Split(qn)) > 1
            THEN TRUE
     ELSE FALSE

\* lines 51-53
is_broad_query(q) ==
  LET qn == Lower(Strip(q))
  IN Len(Split(qn)) <= 2 \/ \E h \in BROAD_HINTS : Contains(qn, h)

\* lines 61-69
is_refusal(msg) == \E p \in REFUSAL_PHRASES : Contains(Lower(msg), p)

----------------------------------------------------------------------------
(* The classification of one query, as answer_with_index opens with it *)

ClassifyQueries == Range(SampleQueries) \cup Range(ExtraQueries)

ClassifyLastAnswers == Range(SampleLastAnswers) \cup Range(ExtraLastAnswers)

InitClassify ==
  /\ \E q \in ClassifyQueries, last_answer \in ClassifyLastAnswers :
       classify_call = [pc |-> "call", query |-> q, last_answer |-> last_answer]
  /\ search_call = IdleSearch
  /\ context_call = IdleContext
  /\ answer_call = IdleAnswer
  /\ ApiIdle

\* lines 184-187
Classify ==
  /\ classify_call.pc = "call"
  /\ LET c == classify_call
     IN classify_call' =
          [pc |-> "return", query |-> c.query, last_answer |-> c.last_answer,
           greeting |-> is_greeting(c.query),
           farewell |-> is_farewell(c.query),
           broad |-> is_broad_query(c.query),
           topic_changed |-> is_topic_change(c.query, c.last_answer)]
  /\ UNCHANGED <<search_call, context_call, answer_call, api_vars>>

NextClassify == Classify

SpecClassify == InitClassify /\ [][NextClassify]_vars

----------------------------------------------------------------------------
(* rag_chat.py: answer_with_index *)

MIN_TOP_K == 6

POOL_BROAD == 30

LAMBDA_BROAD == 55

CTX_BUDGET_BROAD == 3500

POOL_SPECIFIC == 40

LAMBDA_SPECIFIC == 50

CTX_BUDGET_SPECIFIC == 4000

PER_CHUNK_LIMIT == 480

SHORT_QUERY_TOKENS == 2

SALVAGE_MIN_CONTEXT == 500

MIN_CHIPS == 3

MAX_CHIPS == 5

\* line 201
FALLBACK_ANSWER ==
  <<"I", " ", "d", "o", "n", "'", "t", " ", "h", "a", "v", "e", " ", "t",
  "h", "a", "t", " ", "i", "n", "f", "o", "r", "m", "a", "t", "i", "o", "n",
  " ", "i", "n", " ", "t", "h", "e", " ", "p", "r", "o", "v", "i", "d", "e",
  "d", " ", "d", "o", "c", "u", "m", "e", "n", "t", "s", ".">>

\* line 202
FALLBACK_CHIPS ==
  <<
    <<"S", "h", "o", "w", " ", "k", "e", "y", " ", "t", "o", "p", "i", "c",
    "s", " ", "c", "o", "v", "e", "r", "e", "d">>,
    <<"O", "u", "t", "l", "i", "n", "e", " ", "m", "a", "i", "n", " ", "s",
    "e", "c", "t", "i", "o", "n", "s", " ", "i", "n", " ", "t", "h", "e",
    "s", "e", " ", "d", "o", "c", "s">>,
    <<"W", "h", "a", "t", " ", "s", "h", "o", "u", "l", "d", " ", "I", " ",
    "r", "e", "a", "d", " ", "f", "i", "r", "s", "t">>
  >>

\* line 234
GOODBYE_ANSWER ==
  <<"G", "o", "o", "d", "b", "y", "e", "!", " ", "F", "e", "e", "l", " ",
  "f", "r", "e", "e", " ", "t", "o", " ", "a", "s", "k", " ", "i", "f", " ",
  "y", "o", "u", " ", "n", "e", "e", "d", " ", "h", "e", "l", "p", " ", "w",
  "i", "t", "h", " ", "a", "n", "y", "t", "h", "i", "n", "g", " ", "e", "l",
  "s", "e", ".">>

\* lines 236-240
FAREWELL_CHIPS ==
  <<
    <<"W", "h", "a", "t", " ", "t", "o", "p", "i", "c", "s", " ", "a", "r",
    "e", " ", "c", "o", "v", "e", "r", "e", "d", " ", "h", "e", "r", "e">>,
    <<"S", "h", "o", "w", " ", "m", "e", " ", "k", "e", "y", " ", "i", "n",
    "f", "o", "r", "m", "a", "t", "i", "o", "n">>,
    <<"H", "e", "l", "p", " ", "m", "e", " ", "g", "e", "t", " ", "s", "t",
    "a", "r", "t", "e", "d">>
  >>

\* lines 243-249
BACKFILL_CHIPS ==
  <<
    <<"S", "h", "o", "w", " ", "k", "e", "y", " ", "t", "o", "p", "i", "c",
    "s", " ", "c", "o", "v", "e", "r", "e", "d">>,
    <<"O", "u", "t", "l", "i", "n", "e", " ", "m", "a", "i", "n", " ", "s",
    "e", "c", "t", "i", "o", "n", "s", " ", "i", "n", " ", "t", "h", "e",
    "s", "e", " ", "d", "o", "c", "s">>,
    <<"W", "h", "a", "t", " ", "s", "h", "o", "u", "l", "d", " ", "I", " ",
    "r", "e", "a", "d", " ", "f", "i", "r", "s", "t">>,
    <<"G", "i", "v", "e", " ", "m", "e", " ", "a", " ", "q", "u", "i", "c",
    "k", " ", "s", "t", "a", "r", "t", " ", "c", "h", "e", "c", "k", "l",
    "i", "s", "t">>,
    <<"S", "u", "m", "m", "a", "r", "i", "z", "e", " ", "m", "a", "j", "o",
    "r", " ", "b", "e", "s", "t", " ", "p", "r", "a", "c", "t", "i", "c",
    "e", "s", " ", "h", "e", "r", "e">>
  >>

\* answers the language model may give
SampleAnswers ==
  <<
    <<"P", "r", "i", "c", "i", "n", "g", " ", "i", "s", " ", "c", "o", "v",
    "e", "r", "e", "d", " ", "i", "n", " ", "*", "*", "c", "h", "a", "p",
    "t", "e", "r", " ", "5", "*", "*", ".">>,
    <<"I", " ", "c", "o", "u", "l", "d", "n", "'", "t", " ", "f", "i", "n",
    "d", " ", "t", "h", "a", "t", " ", "i", "n", " ", "t", "h", "e", " ",
    "d", "o", "c", "u", "m", "e", "n", "t", "s", ".">>,
    <<"G", "o", "o", "d", "b", "y", "e", ",", " ", "a", "n", "d", " ", "t",
    "h", "a", "n", "k", "s", " ", "f", "o", "r", " ", "a", "s", "k", "i",
    "n", "g", "!">>
  >>

\* chips the language model may give
SampleChips ==
  <<
    <<"W", "h", "a", "t", " ", "d", "o", "e", "s", " ", "c", "h", "a", "p",
    "t", "e", "r", " ", "6", " ", "c", "o", "v", "e", "r">>,
    <<" ", " ">>,
    <<"H", "o", "w", " ", "a", "r", "e", " ", "d", "i", "s", "c", "o", "u",
    "n", "t", "s", " ", "t", "i", "e", "r", "e", "d">>,
    <<"S", "h", "o", "w", " ", "k", "e", "y", " ", "t", "o", "p", "i", "c",
    "s", " ", "c", "o", "v", "e", "r", "e", "d">>,
    <<"W", "h", "o", " ", "a", "p", "p", "r", "o", "v", "e", "s", " ", "a",
    " ", "d", "i", "s", "c", "o", "u", "n", "t">>,
    <<"W", "h", "e", "n", " ", "d", "o", " ", "p", "r", "i", "c", "e", "s",
    " ", "c", "h", "a", "n", "g", "e">>,
    <<"W", "h", "e", "r", "e", " ", "i", "s", " ", "t", "h", "e", " ", "p",
    "r", "i", "c", "e", " ", "l", "i", "s", "t">>
  >>

\* a summary the language model may give
SALVAGE_TEXT ==
  <<"-", " ", "p", "r", "i", "c", "i", "n", "g", " ", "-", " ", "d", "i",
  "s", "c", "o", "u", "n", "t", "s", " ", "-", " ", "t", "i", "e", "r",
  "s">>

\* the integer square root of a perfect square
ISqrt(n) == CHOOSE r \in 0..n : r * r = n

\* lines 85-88: the mean of the rows, renormalized.  Dividing the column
\* sums by their norm gives the same vector; the model's indexes are chosen
\* so that the result has integer coordinates at the model's scale.
centroid_vector(embs) ==
  LET sum == [k \in 1..3 |-> LET RECURSIVE Col(_)
                                 Col(i) == IF i = 0 THEN 0
                                           ELSE embs[i][k] + Col(i - 1)
                             IN Col(Len(embs))]
      norm == ISqrt(Dot(sum, sum))
  IN IF norm = 0 THEN sum
     ELSE [k \in 1..3 |-> (ISqrt(SimScale) * sum[k]) \div norm]

\* a plan that forgets the farewell flag
RetrievalPlanNoFarewell(query, top_k) ==
  LET greeting == is_greeting(query)
      broad == is_broad_query(query)
  IN IF greeting \/ broad
       THEN [qvec_source |-> IF greeting
                                  \/ Len(Split(Strip(query))) <= SHORT_QUERY_TOKENS
                               THEN "centroid_vector" ELSE "embed_query",
             tk |-> Max(top_k, MIN_TOP_K), pool |-> POOL_BROAD,
             lambda_mult |-> LAMBDA_BROAD, ctx_budget |-> CTX_BUDGET_BROAD]
       ELSE [qvec_source |-> "embed_query",
             tk |-> Max(top_k, MIN_TOP_K), pool |-> POOL_SPECIFIC,
             lambda_mult |-> LAMBDA_SPECIFIC, ctx_budget |-> CTX_BUDGET_SPECIFIC]

\* lines 184-198: where the query vector comes from and the arguments of
\* search, chosen from the classification of the query
RetrievalPlan(query, top_k) ==
  LET greeting == is_greeting(query)
      farewell == is_farewell(query)
      broad == is_broad_query(query)
  IN IF greeting \/ broad \/ farewell
       THEN [qvec_source |-> IF greeting \/ farewell
                                  \/ Len(Split(Strip(query))) <= SHORT_QUERY_TOKENS
                               THEN "centroid_vector" ELSE "embed_query",
             tk |-> Max(top_k, MIN_TOP_K), pool |-> POOL_BROAD,
             lambda_mult |-> LAMBDA_BROAD, ctx_budget |-> CTX_BUDGET_BROAD]
       ELSE [qvec_source |-> "embed_query",
             tk |-> Max(top_k, MIN_TOP_K), pool |-> POOL_SPECIFIC,
             lambda_mult |-> LAMBDA_SPECIFIC, ctx_budget |-> CTX_BUDGET_SPECIFIC]

\* lines 112-119 for a given sort order and query vector
SearchHits(embs, meta, qvec, order, top_k, lambda_mult, pool_size) ==
  LET sims == Similarities(embs, qvec)
      idx == mmr_select(PoolOf(order, pool_size), sims, embs, top_k, lambda_mult)
  IN RelevanceFilter(Materialize(idx, sims, meta))

\* line 208: the prompt without the previous answer is used
FreshPrompt(topic_changed, last_answer, farewell, greeting) ==
  topic_changed \/ Strip(last_answer) = <<>> \/ farewell \/ greeting

\* line 229: the chips that are not blank, stripped
CleanChips(chips) ==
  LET kept == SelectSeq(chips, LAMBDA c : Strip(c) # <<>>)
  IN [k \in 1..Len(kept) |-> strip_md(Strip(kept[k]))]

\* lines 250-254: the backfill loop from entry k on
RECURSIVE Backfill(_, _)
Backfill(chips, k) ==
  IF k > Len(BACKFILL_CHIPS) THEN chips
  ELSE LET b == BACKFILL_CHIPS[k]
           added == IF b \notin Range(chips) THEN Append(chips, b) ELSE chips
       IN IF Len(added) >= MIN_CHIPS THEN added ELSE Backfill(added, k + 1)

\* lines 228-256: the answer and chips made of the model's reply
PostProcess(reply, farewell) ==
  LET ans == strip_md(Strip(reply.answer))
      chips == CleanChips(reply.chips)
  IN IF farewell
       THEN [ans |-> IF \E w \in FAREWELL_WORDS : Contains(Lower(ans), w)
                       THEN ans ELSE GOODBYE_ANSWER,
             chips |-> SubSeq(FAREWELL_CHIPS, 1, Min(MIN_CHIPS, Len(FAREWELL_CHIPS)))]
       ELSE [ans |-> ans,
             chips |-> LET filled == IF Len(chips) < MIN_CHIPS
                                       THEN Backfill(chips, 1) ELSE chips
                       IN SubSeq(filled, 1, Min(MAX_CHIPS, Len(filled)))]

\* a chunk text long enough for two of them to pass the salvage threshold
LongText == [k \in 1..LongTextLen |-> "x"]

\* indexes as build_index.py writes them: unit rows, one metadata entry a row
SampleIndexes ==
  << [embs |-> << <<1, 2, 2>> >>, meta |-> MetaOf(1)],
     [embs |-> << <<1, -2, 2>>, <<1, -2, 2>> >>, meta |-> MetaOf(2)],
     [embs |-> << <<2, 2, -1>>, <<2, -2, 1>> >>,
      meta |-> << [source |-> 1, text |-> LongText],
                  [source |-> 2, text |-> LongText] >>] >>

\* what the chat completion may answer: JSON that does not parse (data = {}),
\* or an answer with zero to seven chips
ChatReplies ==
  {[answer |-> <<>>, chips |-> <<>>]}
    \cup {[answer |-> SampleAnswers[a], chips |-> SubSeq(SampleChips, 1, n)] :
            a \in 1..Len(SampleAnswers), n \in {0, 2, Len(SampleChips)}}

----------------------------------------------------------------------------
(* One call of answer_with_index *)

InitAnswer ==
  /\ \E x \in 1..Len(SampleIndexes), q \in 1..Len(SampleQueries),
        top_k \in {0, MIN_TOP_K, MaxRequestedTopK},
        la \in 1..Len(SampleLastAnswers) :
       answer_call = [pc |-> "call", embs |-> SampleIndexes[x].embs,
                      meta |-> SampleIndexes[x].meta,
                      query |-> SampleQueries[q], top_k |-> top_k,
                      last_answer |-> SampleLastAnswers[la],
                      chat_calls |-> 0, embed_calls |-> 0]
  /\ search_call = IdleSearch
  /\ context_call = IdleContext
  /\ ApiIdle
  /\ classify_call = IdleClassify

\* lines 184-198 with embed_query answering qvec
Retrieved(c, plan, qvec, embed_calls, order) ==
  [pc |-> "searched", embs |-> c.embs, meta |-> c.meta, query |-> c.query,
   top_k |-> c.top_k, last_answer |-> c.last_answer,
   chat_calls |-> c.chat_calls, embed_calls |-> embed_calls,
   greeting |-> is_greeting(c.query), farewell |-> is_farewell(c.query),
   broad |-> is_broad_query(c.query),
   topic_changed |-> is_topic_change(c.query, c.last_answer),
   qvec_source |-> plan.qvec_source, qvec |-> qvec, tk |-> plan.tk,
   pool |-> plan.pool, lambda_mult |-> plan.lambda_mult,
   ctx_budget |-> plan.ctx_budget,
   hits |-> SearchHits(c.embs, c.meta, qvec, order, plan.tk, plan.lambda_mult,
                       plan.pool)]

\* lines 184-198: classify, take the centroid, search
AnswerRetrieveCentroid ==
  /\ answer_call.pc = "call"
  /\ LET c == answer_call
         plan == RetrievalPlan(c.query, c.top_k)
         qvec == centroid_vector(c.embs)
     IN /\ plan.qvec_source = "centroid_vector"
        /\ \E order \in ArgsortDescending(Similarities(c.embs, qvec)) :
             answer_call' = Retrieved(c, plan, qvec, c.embed_calls, order)
  /\ UNCHANGED <<search_call, context_call, api_vars, classify_call>>

\* lines 184-198: classify, embed the query text, search
AnswerRetrieveEmbed ==
  /\ answer_call.pc = "call"
  /\ LET c == answer_call
         plan == RetrievalPlan(c.query, c.top_k)
     IN /\ plan.qvec_source = "embed_query"
        /\ \E qvec \in Vecs :
             \E order \in ArgsortDescending(Similarities(c.embs, qvec)) :
               answer_call' = Retrieved(c, plan, qvec, c.embed_calls + 1, order)
  /\ UNCHANGED <<search_call, context_call, api_vars, classify_call>>

\* line 80: the embeddings request fails and the exception propagates
AnswerEmbedFails ==
  /\ answer_call.pc = "call"
  /\ RetrievalPlan(answer_call.query, answer_call.top_k).qvec_source = "embed_query"
  /\ answer_call' = [answer_call EXCEPT !.pc = "raise",
                                        !.embed_calls = @ + 1]
  /\ UNCHANGED <<search_call, context_call, api_vars, classify_call>>

\* a version that asks the language model before looking at the hits
AnswerFallbackAfterChat ==
  /\ answer_call.pc = "searched"
  /\ answer_call.hits = <<>>
  /\ answer_call' = [pc |-> "return", chat_calls |-> answer_call.chat_calls + 1,
                     hits |-> answer_call.hits,
                     ans |-> FALLBACK_ANSWER, chips |-> FALLBACK_CHIPS]
  /\ UNCHANGED <<search_call, context_call, api_vars, classify_call>>

\* lines 200-203
AnswerFallback ==
  /\ answer_call.pc = "searched"
  /\ answer_call.hits = <<>>
  /\ answer_call' = [pc |-> "return", chat_calls |-> answer_call.chat_calls,
                     hits |-> answer_call.hits,
                     ans |-> FALLBACK_ANSWER, chips |-> FALLBACK_CHIPS]
  /\ UNCHANGED <<search_call, context_call, api_vars, classify_call>>

\* lines 205-259: build the context, ask the language model, clean its reply
AnswerChat ==
  /\ answer_call.pc = "searched"
  /\ answer_call.hits # <<>>
  /\ LET c == answer_call
         bc == build_context(c.hits, c.ctx_budget, PER_CHUNK_LIMIT)
         template == IF FreshPrompt(c.topic_changed, c.last_answer, c.farewell,
                                    c.greeting)
                       THEN "USER_SINGLE_TEMPLATE"
                       ELSE "USER_SINGLE_TEMPLATE_WITH_CONTEXT"
     IN \E reply \in ChatReplies :
          LET out == PostProcess(reply, c.farewell)
              salvage == /\ is_refusal(out.ans)
                         /\ bc.taken # <<>>
                         /\ Len(bc.context) > SALVAGE_MIN_CONTEXT
                         /\ ~c.farewell
          IN answer_call' = [pc |-> IF salvage THEN "salvage" ELSE "return",
                             chat_calls |-> c.chat_calls + 1, hits |-> c.hits,
                             template |-> template, strong |-> bc.taken,
                             context_len |-> Len(bc.context),
                             ans |-> out.ans, chips |-> out.chips]
  /\ UNCHANGED <<search_call, context_call, api_vars, classify_call>>

\* lines 217-223: the chat completion fails and the exception propagates
AnswerChatFails ==
  /\ answer_call.pc = "searched"
  /\ answer_call.hits # <<>>
  /\ answer_call' = [pc |-> "chat_raise",
                     chat_calls |-> answer_call.chat_calls + 1,
                     hits |-> answer_call.hits]
  /\ UNCHANGED <<search_call, context_call, api_vars, classify_call>>

\* lines 259-274: the second chat completion; a failure keeps the answer
AnswerSalvage ==
  /\ answer_call.pc = "salvage"
  /\ \E ok \in BOOLEAN :
       answer_call' = [answer_call EXCEPT
                         !.pc = "return",
                         !.chat_calls = @ + 1,
                         !.ans = IF ok THEN strip_md(Strip(SALVAGE_TEXT)) ELSE @]
  /\ UNCHANGED <<search_call, context_call, api_vars, classify_call>>

NextAnswer ==
  \/ AnswerRetrieveCentroid
  \/ AnswerRetrieveEmbed
  \/ AnswerEmbedFails
  \/ AnswerFallback
  \/ AnswerChat
  \/ AnswerChatFails
  \/ AnswerSalvage

SpecAnswer == InitAnswer /\ [][NextAnswer]_vars

----------------------------------------------------------------------------
(* build_index.py: the index a build writes *)

\* the embedding matrix of build b (lines 199-202): builds differ in their
\* number of chunks
BuildEmbs(b) ==
  IF b % 2 = 1
    THEN [build |-> b, rows |-> << <<1, 2, 2>>, <<2, 2, -1>> >>]
    ELSE [build |-> b, rows |-> << <<1, -2, 2>>, <<2, -2, 1>>, <<1, 2, 2>> >>]

\* the records of build b (lines 163-192), one per row of its matrix
BuildMeta(b) ==
  [build |-> b,
   rows |-> [i \in 1..Len(BuildEmbs(b).rows) |->
               [source |-> <<b, i>>,
                text |-> SampleTexts[((i - 1) % Len(SampleTexts)) + 1]]]]

----------------------------------------------------------------------------
(* api.py: get_index, /health, /query, /reindex; rag_chat.py: index_version, *)
(* load_index.  Every endpoint is a plain def, which FastAPI runs on a      *)
(* thread pool, so the calls interleave between any two of their steps.     *)

Getters == {"query", "health"}

\* the question the /query call asks and the vector embed_query answers
ApiQuestion == SampleQueries[9]

ApiQueryVec == <<1, 2, 2>>

\* lines 283-294: the digest of the meta bytes and of the matrix shape
VersionOf(meta_build, n_rows) == [meta |-> meta_build, shape |-> n_rows]

\* line 294: f"fallback-{int(time.time())}", at one of two clock readings
FallbackVersions == {[fallback |-> 0], [fallback |-> 1]}

NewGetter ==
  [pc |-> "version_meta", meta_bytes |-> PARTIAL, current_version |-> NoVersion,
   embs |-> NoIndex, meta |-> NoIndex, got |-> NoIndex]

\* the index a /query call computes on, as looked up from the cache again
IndexSeenInCache(f) == cached_index

\* api.py lines 60-66: the pair unpacked from get_index() is what
\* answer_with_index is given
IndexSeenBy(f) == f.index

InitApi ==
  /\ search_call = IdleSearch
  /\ context_call = IdleContext
  /\ answer_call = IdleAnswer
  /\ classify_call = IdleClassify
  /\ cached_index = NoIndex
  /\ cached_version = NoVersion
  /\ emb_file = 1
  /\ meta_file = 1
  /\ getters = [t \in Getters |-> NewGetter]
  /\ reindex_call = [pc |-> "idle", build |-> 1, calls |-> 0]

HarnessIdle == UNCHANGED <<search_call, context_call, answer_call, classify_call>>

\* rag_chat.py lines 287-288: index_version reads the bytes of meta.json
VersionReadMeta(t) ==
  /\ getters[t].pc = "version_meta"
  /\ getters' = [getters EXCEPT ![t].meta_bytes = meta_file,
                                ![t].pc = "version_emb"]
  /\ UNCHANGED <<cached_index, cached_version, emb_file, meta_file, reindex_call>>
  /\ HarnessIdle

\* rag_chat.py lines 289-294: index_version maps embeddings.npy for its shape;
\* a file that cannot be read gives the fallback version
VersionReadShape(t) ==
  /\ getters[t].pc = "version_emb"
  /\ \E v \in IF emb_file = PARTIAL \/ getters[t].meta_bytes = PARTIAL
                THEN FallbackVersions
                ELSE {VersionOf(getters[t].meta_bytes,
                                Len(BuildEmbs(emb_file).rows))} :
       getters' = [getters EXCEPT ![t].current_version = v,
                                  ![t].pc = "check_index"]
  /\ UNCHANGED <<cached_index, cached_version, emb_file, meta_file, reindex_call>>
  /\ HarnessIdle

\* api.py line 29, left operand: _cached_index is None
CheckCachedIndex(t) ==
  /\ getters[t].pc = "check_index"
  /\ getters' = [getters EXCEPT ![t].pc = IF cached_index = NoIndex
                                            THEN "load_emb" ELSE "check_version"]
  /\ UNCHANGED <<cached_index, cached_version, emb_file, meta_file, reindex_call>>
  /\ HarnessIdle

\* api.py line 29, right operand: _cached_version != current_version
CheckCachedVersion(t) ==
  /\ getters[t].pc = "check_version"
  /\ getters' = [getters EXCEPT ![t].pc =
                   IF cached_version # getters[t].current_version
                     THEN "load_emb" ELSE "return_index"]
  /\ UNCHANGED <<cached_index, cached_version, emb_file, meta_file, reindex_call>>
  /\ HarnessIdle

\* rag_chat.py line 74: np.load of embeddings.npy; a file written in part
\* raises, and the exception leaves get_index
LoadEmbeddings(t) ==
  /\ getters[t].pc = "load_emb"
  /\ getters' = [getters EXCEPT
                   ![t].embs = IF emb_file = PARTIAL THEN NoIndex
                               ELSE BuildEmbs(emb_file),
                   ![t].pc = IF emb_file = PARTIAL THEN "failed" ELSE "load_meta"]
  /\ UNCHANGED <<cached_index, cached_version, emb_file, meta_file, reindex_call>>
  /\ HarnessIdle

\* rag_chat.py lines 75-77: json.load of meta.json
LoadMeta(t) ==
  /\ getters[t].pc = "load_meta"
  /\ getters' = [getters EXCEPT
                   ![t].meta = IF meta_file = PARTIAL THEN NoIndex
                               ELSE BuildMeta(meta_file),
                   ![t].pc = IF meta_file = PARTIAL THEN "failed" ELSE "set_index"]
  /\ UNCHANGED <<cached_index, cached_version, emb_file, meta_file, reindex_call>>
  /\ HarnessIdle

\* api.py line 31: _cached_index = rag_chat.load_index()
SetCachedIndex(t) ==
  /\ getters[t].pc = "set_index"
  /\ cached_index' = [embs |-> getters[t].embs, meta |-> getters[t].meta]
  /\ getters' = [getters EXCEPT ![t].pc = "set_version"]
  /\ UNCHANGED <<cached_version, emb_file, meta_file, reindex_call>>
  /\ HarnessIdle

\* api.py line 32: _cached_version = current_version
SetCachedVersion(t) ==
  /\ getters[t].pc = "set_version"
  /\ cached_version' = getters[t].current_version
  /\ getters' = [getters EXCEPT ![t].pc = "return_index"]
  /\ UNCHANGED <<cached_index, emb_file, meta_file, reindex_call>>
  /\ HarnessIdle

\* api.py line 34: return _cached_index, the global as it is now.
\* /health is done (line 50); /query goes on to unpack the pair.
ReturnIndex(t) ==
  /\ getters[t].pc = "return_index"
  /\ getters' = [getters EXCEPT
                   ![t].got = cached_index,
                   ![t].pc = IF t = "query" THEN "unpack" ELSE "done"]
  /\ UNCHANGED <<cached_index, cached_version, emb_file, meta_file, reindex_call>>
  /\ HarnessIdle

\* api.py line 60: embs, meta = get_index(); unpacking None raises TypeError.
\* The frame keeps what this call's own get_index loaded and recorded.
QueryUnpack ==
  /\ getters["query"].pc = "unpack"
  /\ LET f == getters["query"]
     IN getters' =
          [getters EXCEPT !["query"] =
             IF f.got = NoIndex
               THEN [f EXCEPT !.pc = "failed"]
               ELSE [pc |-> "score", got |-> f.got, index |-> f.got,
                     embs |-> f.embs, meta |-> f.meta,
                     current_version |-> f.current_version,
                     scored_with |-> NoIndex, selected_with |-> NoIndex,
                     materialized_with |-> NoIndex]]
  /\ UNCHANGED <<cached_index, cached_version, emb_file, meta_file, reindex_call>>
  /\ HarnessIdle

\* rag_chat.py lines 110-112 inside answer_with_index: embed the question,
\* sims = embs @ qvec
QueryScore ==
  /\ getters["query"].pc = "score"
  /\ LET f == getters["query"]
         ix == IndexSeenBy(f)
     IN getters' =
          [getters EXCEPT !["query"] =
             IF ix = NoIndex
               THEN [pc |-> "failed", got |-> f.got]
               ELSE [f EXCEPT !.pc = "select", !.scored_with = ix.embs] @@
                    [sims |-> Similarities(ix.embs.rows, ApiQueryVec)]]
  /\ UNCHANGED <<cached_index, cached_version, emb_file, meta_file, reindex_call>>
  /\ HarnessIdle

\* rag_chat.py line 113: mmr_select over the matrix, with the arguments of
\* lines 196-197
QuerySelect ==
  /\ getters["query"].pc = "select"
  /\ LET f == getters["query"]
         ix == IndexSeenBy(f)
         plan == RetrievalPlan(ApiQuestion, MIN_TOP_K)
     IN IF ix = NoIndex \/ Len(ix.embs.rows) # Len(f.sims)
          THEN getters' = [getters EXCEPT !["query"] =
                             [pc |-> "failed", got |-> f.got]]
          ELSE \E order \in ArgsortDescending(f.sims) :
                 getters' =
                   [getters EXCEPT !["query"] =
                      [f EXCEPT !.pc = "materialize",
                                !.selected_with = ix.embs] @@
                      [idx |-> mmr_select(PoolOf(order, plan.pool), f.sims,
                                          ix.embs.rows, plan.tk,
                                          plan.lambda_mult)]]
  /\ UNCHANGED <<cached_index, cached_version, emb_file, meta_file, reindex_call>>
  /\ HarnessIdle

\* rag_chat.py lines 114-119: meta[i] for every selected i (IndexError when
\* the list is shorter than the matrix), then the relevance floor
QueryMaterialize ==
  /\ getters["query"].pc = "materialize"
  /\ LET f == getters["query"]
         ix == IndexSeenBy(f)
     IN getters' =
          [getters EXCEPT !["query"] =
             IF ix = NoIndex \/ \E k \in 1..Len(f.idx) : f.idx[k] > Len(ix.meta.rows)
               THEN [pc |-> "failed", got |-> f.got]
               ELSE [pc |-> "answer", got |-> f.got, index |-> f.index,
                     embs |-> f.embs, meta |-> f.meta,
                     current_version |-> f.current_version,
                     scored_with |-> f.scored_with,
                     selected_with |-> f.selected_with,
                     materialized_with |-> ix.meta,
                     hits |-> RelevanceFilter(
                                Materialize(f.idx, f.sims, ix.meta.rows))]]
  /\ UNCHANGED <<cached_index, cached_version, emb_file, meta_file, reindex_call>>
  /\ HarnessIdle

\* rag_chat.py lines 200-274: the fallback, or the chat completion
QueryAnswer ==
  /\ getters["query"].pc = "answer"
  /\ LET f == getters["query"]
     IN getters' =
          [getters EXCEPT !["query"] =
             [f EXCEPT !.pc = "respond"] @@
             [answer |-> IF f.hits = <<>> THEN FALLBACK_ANSWER
                         ELSE strip_md(Strip(SampleAnswers[1]))]]
  /\ UNCHANGED <<cached_index, cached_version, emb_file, meta_file, reindex_call>>
  /\ HarnessIdle

\* the module global the response reads
VersionReturned == cached_version

\* api.py line 67: the response carries _cached_version, the global as it
\* is now.  Lines 41-44 and 54: the response model declares version: str,
\* so a response whose version is None fails validation and the call ends
\* with an error instead of a successful response.
QueryRespond ==
  /\ getters["query"].pc = "respond"
  /\ LET f == getters["query"]
         version == VersionReturned
     IN getters' = [getters EXCEPT !["query"] =
                      IF version = NoVersion
                        THEN [pc |-> "failed", got |-> f.got]
                        ELSE [f EXCEPT !.pc = "done"] @@ [version |-> version]]
  /\ UNCHANGED <<cached_index, cached_version, emb_file, meta_file, reindex_call>>
  /\ HarnessIdle

\* api.py lines 72-75 and build_index.py lines 162-202: /reindex starts and
\* main() reads and embeds the documents
ReindexBuild ==
  /\ reindex_call.pc = "idle"
  /\ reindex_call.calls < MaxReindex
  /\ reindex_call' = [pc |-> "save", build |-> reindex_call.build + 1,
                      calls |-> reindex_call.calls + 1]
  /\ UNCHANGED <<cached_index, cached_version, emb_file, meta_file, getters>>
  /\ HarnessIdle

\* build_index.py line 204: np.save opens embeddings.npy for writing
SaveOpen ==
  /\ reindex_call.pc = "save"
  /\ emb_file' = PARTIAL
  /\ reindex_call' = [reindex_call EXCEPT !.pc = "saving"]
  /\ UNCHANGED <<cached_index, cached_version, meta_file, getters>>
  /\ HarnessIdle

\* build_index.py line 204: np.save has written the matrix
SaveDone ==
  /\ reindex_call.pc = "saving"
  /\ emb_file' = reindex_call.build
  /\ reindex_call' = [reindex_call EXCEPT !.pc = "dump"]
  /\ UNCHANGED <<cached_index, cached_version, meta_file, getters>>
  /\ HarnessIdle

\* build_index.py line 205: meta.json is opened for writing
DumpOpen ==
  /\ reindex_call.pc = "dump"
  /\ meta_file' = PARTIAL
  /\ reindex_call' = [reindex_call EXCEPT !.pc = "dumping"]
  /\ UNCHANGED <<cached_index, cached_version, emb_file, getters>>
  /\ HarnessIdle

\* build_index.py line 206: json.dump has written the records
DumpDone ==
  /\ reindex_call.pc = "dumping"
  /\ meta_file' = reindex_call.build
  /\ reindex_call' = [reindex_call EXCEPT !.pc = "clear_index"]
  /\ UNCHANGED <<cached_index, cached_version, emb_file, getters>>
  /\ HarnessIdle

\* api.py line 77: _cached_index = None
ClearCachedIndex ==
  /\ reindex_call.pc = "clear_index"
  /\ cached_index' = NoIndex
  /\ reindex_call' = [reindex_call EXCEPT !.pc = "clear_version"]
  /\ UNCHANGED <<cached_version, emb_file, meta_file, getters>>
  /\ HarnessIdle

\* api.py lines 78-79: _cached_version = None, and the call returns
ClearCachedVersion ==
  /\ reindex_call.pc = "clear_version"
  /\ cached_version' = NoVersion
  /\ reindex_call' = [reindex_call EXCEPT !.pc = "idle"]
  /\ UNCHANGED <<cached_index, emb_file, meta_file, getters>>
  /\ HarnessIdle

NextApi ==
  \/ \E t \in Getters : VersionReadMeta(t)
  \/ \E t \in Getters : VersionReadShape(t)
  \/ \E t \in Getters : CheckCachedIndex(t)
  \/ \E t \in Getters : CheckCachedVersion(t)
  \/ \E t \in Getters : LoadEmbeddings(t)
  \/ \E t \in Getters : LoadMeta(t)
  \/ \E t \in Getters : SetCachedIndex(t)
  \/ \E t \in Getters : SetCachedVersion(t)
  \/ \E t \in Getters : ReturnIndex(t)
  \/ QueryUnpack
  \/ QueryScore
  \/ QuerySelect
  \/ QueryMaterialize
  \/ QueryAnswer
  \/ QueryRespond
  \/ ReindexBuild
  \/ SaveOpen
  \/ SaveDone
  \/ DumpOpen
  \/ DumpDone
  \/ ClearCachedIndex
  \/ ClearCachedVersion

SpecApi == InitApi /\ [][NextApi]_vars

----------------------------------------------------------------------------
(* Claims about mmr_select and search, checked under SpecSearch *)

SearchReturned == search_call.pc = "return"

MmrReturned == search_call.pc \in {"return", "raise"}

NoDuplicates(s) == \A a, b \in 1..Len(s) : a # b => s[a] # s[b]

\* C1: for every similarity array of length N and every non-negative top_k
\* and pool_size, the list mmr_select returns holds no index twice and has
\* at most min(top_k, pool_size, N) elements.
C1_NoDuplicatesAtMostMin ==
  MmrReturned =>
    /\ NoDuplicates(search_call.idx)
    /\ Len(search_call.idx)
         <= Min(search_call.top_k,
                Min(search_call.pool_size, Len(search_call.sims)))

\* C4: every result that survives the relevance floor has a score of at
\* least max(0.16, 0.8 * s_max), s_max being the score of the first selected
\* result before filtering.
C4_SurvivorsAboveFloor ==
  (SearchReturned /\ search_call.results # <<>>) =>
    \A k \in 1..Len(search_call.hits) :
      /\ 100 * search_call.hits[k].score >= MIN_SCORE_ABS * SimScale
      /\ 100 * search_call.hits[k].score >= REL_FLOOR * search_call.results[1].score

\* C4 witness: the filter dropped a result and kept at least two.
C4_Witness ==
  /\ SearchReturned
  /\ Len(search_call.hits) >= 2
  /\ Len(search_call.hits) < Len(search_call.results)

\* C5 as stated: filtering the list without its first result never leaves
\* more survivors than filtering the whole list.
C5_RemovingTopNeverIncreases ==
  (SearchReturned /\ search_call.results # <<>>) =>
    Len(RelevanceFilter(Tail(search_call.results)))
      <= Len(RelevanceFilter(search_call.results))

\* C5 amended: filtering the list without its first result never leaves more
\* survivors than filtering the whole list, provided the floor computed from
\* the second result's score is not lower than the floor computed from the
\* first result's score.
C5_RemovingTopNeverIncreasesSameFloor ==
  (/\ SearchReturned
   /\ Len(search_call.results) >= 2
   /\ MinScore(search_call.results[2].score) >= MinScore(search_call.results[1].score))
    => Len(RelevanceFilter(Tail(search_call.results)))
         <= Len(RelevanceFilter(search_call.results))

\* C5 witness: the floor is the same with and without the first result,
\* both lists keep a survivor, and the shorter list keeps fewer.
C5_Witness ==
  /\ SearchReturned
  /\ Len(search_call.results) >= 2
  /\ MinScore(search_call.results[2].score) >= MinScore(search_call.results[1].score)
  /\ Len(RelevanceFilter(Tail(search_call.results))) >= 1
  /\ Len(RelevanceFilter(Tail(search_call.results))) < Len(search_call.hits)

\* C8: with lambda_mult = 1.0 mmr_select returns the first
\* min(top_k, pool_size, N) indices of the descending-similarity pool order.
C8_LambdaOneIsTopK ==
  (MmrReturned /\ search_call.lambda_mult = LambdaScale) =>
    search_call.idx
      = SubSeq(search_call.pool_idx, 1,
               Min(search_call.top_k,
                   Min(search_call.pool_size, Len(search_call.sims))))

\* C9 as stated: with pool_size < top_k the selection has exactly pool_size
\* items.
C9_ExactlyPoolSize ==
  (MmrReturned /\ search_call.pool_size < search_call.top_k) =>
    Len(search_call.idx) = search_call.pool_size

\* C9 amended: with pool_size < top_k the selection has exactly
\* min(pool_size, N) items.
C9_ExactlyPoolSizeOrN ==
  (MmrReturned /\ search_call.pool_size < search_call.top_k) =>
    Len(search_call.idx) = Min(search_call.pool_size, Len(search_call.sims))

\* C9 witness: a pool of two or more cut from a larger index, top_k above it.
C9_Witness ==
  /\ SearchReturned
  /\ search_call.pool_size < search_call.top_k
  /\ search_call.pool_size >= 2
  /\ Len(search_call.sims) > search_call.pool_size
  /\ Len(search_call.idx) = search_call.pool_size

----------------------------------------------------------------------------
(* Claims about build_context, checked under SpecContext *)

ContextReturned == context_call.pc = "return"

\* C6: for every result list, every char_budget >= 0 and every
\* per_chunk_limit, the context string build_context returns is never longer
\* than char_budget + per_chunk_limit + 4 characters.
C6_ContextLengthBound ==
  ContextReturned =>
    Len(context_call.context)
      <= context_call.char_budget + context_call.per_chunk_limit
           + SEPARATOR_OVERHEAD

\* the cost of result k as the contract states it: the length of its
\* stripped text, truncated to per_chunk_limit, plus 4
StatedCost(r, per_chunk_limit) ==
  Min(Len(strip_md(Strip(r.text))), per_chunk_limit) + 4

RECURSIVE StatedPrefixCost(_, _, _)
StatedPrefixCost(results, n, per_chunk_limit) ==
  IF n = 0 THEN 0
  ELSE StatedPrefixCost(results, n - 1, per_chunk_limit)
         + StatedCost(results[n], per_chunk_limit)

\* the length of the longest prefix whose stated cost stays within the budget
LongestFittingPrefix(results, char_budget, per_chunk_limit) ==
  LET fitting == {n \in 0..Len(results) :
                    StatedPrefixCost(results, n, per_chunk_limit) <= char_budget}
  IN IF fitting = {} THEN 0
     ELSE CHOOSE n \in fitting : \A m \in fitting : m <= n

\* C12: the subset build_context returns is a prefix of the results in their
\* order, exactly the longest prefix whose cumulative cost (stripped length
\* truncated to per_chunk_limit, plus 4 per chunk) stays <= char_budget; and
\* with char_budget = 0 both the context and the subset are empty.
C12_StrongIsLongestPrefix ==
  (ContextReturned /\ context_call.per_chunk_limit >= 0) =>
    LET c == context_call
    IN /\ c.taken = SubSeq(c.results, 1,
                           LongestFittingPrefix(c.results, c.char_budget,
                                                c.per_chunk_limit))
       /\ c.char_budget = 0 => (c.context = <<>> /\ c.taken = <<>>)

----------------------------------------------------------------------------
(* Claims about answer_with_index, checked under SpecAnswer *)

AnswerSearched ==
  answer_call.pc \in {"searched", "return", "salvage", "chat_raise"}

\* C7: in every execution of answer_with_index in which search returns an
\* empty list, no chat completion is requested at any point, and the call
\* returns the fixed fallback answer with the three fixed fallback chips.
C7_FallbackWithoutChat ==
  (AnswerSearched /\ answer_call.hits = <<>>) =>
    /\ answer_call.chat_calls = 0
    /\ answer_call.pc \in {"searched", "return"}
    /\ answer_call.pc = "return" =>
         /\ answer_call.ans = FALLBACK_ANSWER
         /\ answer_call.chips = FALLBACK_CHIPS
         /\ Len(answer_call.chips) = 3

\* C7 witness: a call that found no hit has returned the fallback.
C7_Witness ==
  /\ answer_call.pc = "return"
  /\ answer_call.hits = <<>>
  /\ answer_call.ans = FALLBACK_ANSWER
  /\ answer_call.chat_calls = 0

\* C10: the query vector is the centroid iff the query is a greeting, a
\* farewell or has at most 2 tokens, otherwise the query text is embedded;
\* a greeting, broad or farewell query is searched with pool 30, lambda 0.55
\* and context budget 3500, any other with pool 40, lambda 0.50 and budget
\* 4000; top_k is max(requested top_k, 6) in both cases.
C10_RetrievalParameters ==
  answer_call.pc = "searched" =>
    LET c == answer_call
        greeting == is_greeting(c.query)
        farewell == is_farewell(c.query)
        broad == is_broad_query(c.query)
        short == Len(Split(c.query)) <= 2
    IN /\ (c.qvec_source = "centroid_vector") <=> (greeting \/ farewell \/ short)
       /\ (c.qvec_source = "embed_query") <=> ~(greeting \/ farewell \/ short)
       /\ c.qvec_source = "centroid_vector" =>
            (c.qvec = centroid_vector(c.embs) /\ c.embed_calls = 0)
       /\ c.qvec_source = "embed_query" => c.embed_calls = 1
       /\ (greeting \/ broad \/ farewell) =>
            (c.pool = 30 /\ c.lambda_mult = 55 /\ c.ctx_budget = 3500)
       /\ ~(greeting \/ broad \/ farewell) =>
            (c.pool = 40 /\ c.lambda_mult = 50 /\ c.ctx_budget = 4000)
       /\ c.tk = Max(c.top_k, 6)

\* C10 witness: a broad query of more than two tokens, neither greeting nor
\* farewell, was embedded and searched with the smaller pool and more than
\* six results asked for.
C10_Witness ==
  /\ answer_call.pc = "searched"
  /\ answer_call.broad /\ ~answer_call.greeting /\ ~answer_call.farewell
  /\ answer_call.qvec_source = "embed_query"
  /\ answer_call.pool = 30
  /\ answer_call.tk > 6

----------------------------------------------------------------------------
(* Claims about the index cache, checked under SpecApi *)

QueryCall == getters["query"]

QueryRetrieving ==
  QueryCall.pc \in {"score", "select", "materialize", "answer", "respond", "done"}

\* C2: a /query call that obtained the pair V1 from get_index does its
\* scoring and its MMR selection on V1's matrix and materializes its results
\* from V1's metadata, whatever a concurrent /reindex does meanwhile.
C2_RetrievalUsesOnlyV1 ==
  QueryRetrieving =>
    /\ QueryCall.scored_with # NoIndex => QueryCall.scored_with = QueryCall.got.embs
    /\ QueryCall.selected_with # NoIndex =>
         QueryCall.selected_with = QueryCall.got.embs
    /\ QueryCall.materialized_with # NoIndex =>
         QueryCall.materialized_with = QueryCall.got.meta
    /\ QueryCall.pc \in {"select", "materialize", "answer", "respond", "done"} =>
         QueryCall.scored_with # NoIndex
    /\ QueryCall.pc \in {"materialize", "answer", "respond", "done"} =>
         QueryCall.selected_with # NoIndex
    /\ QueryCall.pc \in {"answer", "respond", "done"} =>
         QueryCall.materialized_with # NoIndex

\* C2 witness: the call has materialized its results from build 1 although
\* a /reindex has since written build 2 to both files and cleared the cache.
C2_Witness ==
  /\ QueryCall.pc = "answer"
  /\ QueryCall.materialized_with = BuildMeta(1)
  /\ QueryCall.scored_with = BuildEmbs(1)
  /\ emb_file = 2 /\ meta_file = 2
  /\ cached_index = NoIndex

\* C3: the (matrix, metadata) pair get_index loads and caches always comes
\* from one single index build, so both have the same length.
C3_CachedPairFromOneBuild ==
  cached_index # NoIndex =>
    /\ cached_index.embs.build = cached_index.meta.build
    /\ Len(cached_index.embs.rows) = Len(cached_index.meta.rows)

----------------------------------------------------------------------------
(* Claims about the classifiers, checked under SpecClassify *)

Classified == classify_call.pc = "return"

\* the words of a text: lowercased, split on whitespace
WordSet(text) == Range(Split(Lower(text)))

\* C11: with a non-empty last answer, a query that is neither a greeting nor
\* a farewell, has more than 2 tokens and shares a meaningful word (longer
\* than 3 characters, not a stop word) with the last answer is not a topic
\* change; and a greeting or a farewell is a topic change whatever the last
\* answer is, the empty one included.
C11_TopicChange ==
  Classified =>
    LET q == classify_call.query
        last == classify_call.last_answer
    IN /\ ( /\ last # <<>>
            /\ ~classify_call.greeting
            /\ ~classify_call.farewell
            /\ Len(Split(q)) > 2
            /\ \E w \in WordSet(q) \cap WordSet(last) :
                  Len(w) > 3 /\ w \notin STOP_WORDS )
          => classify_call.topic_changed = FALSE
       /\ (classify_call.greeting \/ classify_call.farewell)
          => classify_call.topic_changed = TRUE

\* C11 witness: "what about chapter 5 pricing" after an answer that also
\* speaks of pricing is classified as no topic change.
C11_Witness ==
  /\ Classified
  /\ classify_call.query = SampleQueries[8]
  /\ classify_call.last_answer = SampleLastAnswers[3]
  /\ ~classify_call.greeting /\ ~classify_call.farewell
  /\ classify_call.topic_changed = FALSE

----------------------------------------------------------------------------
(* Claims about the version of a /query response, checked under SpecApi *)

\* getter t has loaded a pair, for which it records its current_version
\* (api.py lines 31-32)
Recorded(t) ==
  /\ "embs" \in DOMAIN getters[t]
  /\ getters[t].embs # NoIndex
  /\ getters[t].meta # NoIndex

\* C13: the version of a successful /query response is never None and is the
\* version that was recorded in the cache for the very pair the call
\* computed its answer from.
C13_VersionOfUsedPair ==
  QueryCall.pc = "done" =>
    /\ QueryCall.version # NoVersion
    /\ \E t \in Getters :
         /\ Recorded(t)
         /\ [embs |-> getters[t].embs, meta |-> getters[t].meta] = QueryCall.index
         /\ getters[t].current_version = QueryCall.version

====
